---- MODULE Spec2Model ----
(***************************************************************************)
(* riscv_plic: a driver for the RISC-V Platform-Level Interrupt            *)
(* Controller.  The state is the memory-mapped register file (PLICRegs)    *)
(* together with the controller's internal pending / in-service state; the *)
(* actions are the methods of Plic and the steps of the controller.        *)
(*                                                                         *)
(* A u32 register value is modelled by the set of its 1-bits: bit i is in  *)
(* the set iff (w >> i) & 1 = 1.  This is a bijection with 0 .. 2^32-1, so *)
(* |, &, ! and << on words are union, intersection, complement and a       *)
(* singleton, and 0 is the empty set.                                      *)
(***************************************************************************)
EXTENDS Integers, FiniteSets, Sequences, TLC

(* ---------------------------------------------------------------------- *)
(* Program constants                                                       *)
(* ---------------------------------------------------------------------- *)
SOURCE_NUM == 1024
CONTEXT_NUM == 15872
U32_BITS == 32

(* ---------------------------------------------------------------------- *)
(* Bounds of the model                                                     *)
(* ---------------------------------------------------------------------- *)
\* The source ids the callers use: two in the same 32-source group and one
\* in another group.
SrcIds == {1, 2, 33}
\* The context indices the callers use.
CtxIds == {0, 1}
\* The two sources that assert in the claim/complete runs: the same bit of
\* two different enable words.
ClaimSrc == {1, 33}
\* The harts (callers) of the concurrent runs.
HartIds == {1, 2}
\* The largest priority and threshold value the callers write (besides the
\* all-ones word of the probes and one value past the implemented width).
MaxPrio == 2
\* The largest number of priority bits the controller implements.
MaxPrioBits == 2

(* ---------------------------------------------------------------------- *)
(* u32 words                                                               *)
(* ---------------------------------------------------------------------- *)
Bits == 0 .. (U32_BITS - 1)
Word == SUBSET Bits
\* The word of a number below 2^31.
U32(n) == {i \in 0 .. (U32_BITS - 2) : (n \div (2 ^ i)) % 2 = 1}
\* `!0`
AllOnes == Bits
\* `1 << index`
Shl1(index) == {index}
\* a > b on u32 values: the highest bit in which they differ is a's.
WordGt(a, b) == \E i \in a \ b : \A j \in b \ a : j < i

\* fn parse_group_and_index(source): a mutation that returns (index, group)
parse_group_and_index_swapped(source) == <<source % U32_BITS, source \div U32_BITS>>

\* fn parse_group_and_index(source)
parse_group_and_index(source) == <<source \div U32_BITS, source % U32_BITS>>

GroupIds == {parse_group_and_index(s)[1] : s \in SrcIds}

(* ---------------------------------------------------------------------- *)
(* State                                                                   *)
(* ---------------------------------------------------------------------- *)
VARIABLES
    InterruptPriority,    \* [SrcIds -> Word]: the priority word of each source
    InterruptEnableCtxX,  \* [CtxIds -> [GroupIds -> Word]]: the enable words
    PriorityThreshold,    \* [CtxIds -> Word]: the threshold word of each context
    PrioBits,             \* the number of priority bits the controller implements
    pending,              \* the sources whose pending bit is set
    claimed,              \* the sources claimed and not yet completed (gateway closed)
    last,                 \* the last step: a call of the driver and what it returned
    asserted,             \* history: the sources that asserted since a claim last returned them
    token,                \* history: [CtxIds -> the sources the context claimed and has not completed]
    written,              \* history: [CtxIds -> the word last written to the threshold]
    harts,                \* [HartIds -> the call a hart is in, its position and its local `value`]
    lock,                 \* the (context, group) locks held: a set of <<hart, context, group>>
    serialized,           \* whether the harts take the (context, group) lock around enable/disable
    start,                \* history: the enable and threshold registers when the harts started
    overlap               \* history: whether a hart accessed a register while another was mid-call

regVars == <<InterruptPriority, InterruptEnableCtxX, PriorityThreshold, PrioBits>>
hwVars == <<pending, claimed>>
histVars == <<asserted, token, written>>
hartVars == <<harts, lock, serialized, start, overlap>>
vars == <<regVars, hwVars, last, histVars, hartVars>>

\* What a call returned: a tag and a word (a bool is the word 1 or 0, a
\* source id its u32).
RetUnit == [tag |-> "unit", val |-> {}]
RetBool(b) == [tag |-> "bool", val |-> IF b THEN U32(1) ELSE U32(0)]
RetU32(w) == [tag |-> "u32", val |-> w]
RetSome(w) == [tag |-> "some", val |-> w]
RetNone == [tag |-> "none", val |-> {}]
RetPanic == [tag |-> "panic", val |-> {}]

\* A step: the operation, its arguments (0 or the empty word where it has
\* none) and what it returned.
Call(op, source, context, value, ret) ==
    [op |-> op, source |-> source, context |-> context, value |-> value, ret |-> ret]

NoCall == Call("none", 0, 0, {}, RetUnit)

(* ---------------------------------------------------------------------- *)
(* Array indexing: an index past the end of a register array panics        *)
(* ---------------------------------------------------------------------- *)
\* InterruptEnableCtxX[context] and Contexts[context]
ContextIndexOk(context) == context < CONTEXT_NUM
\* InterruptSources[group] and InterruptPending[group]
GroupIndexOk(group) == group < SOURCE_NUM \div U32_BITS
\* InterruptPriority[source]
SourceIndexOk(source) == source < SOURCE_NUM

(* ---------------------------------------------------------------------- *)
(* Enable registers                                                        *)
(* ---------------------------------------------------------------------- *)
\* `value | 1 << index`: a mutation that drops the other bits of the word
enable_value_overwrites(value, index) == Shl1(index)

\* `value | 1 << index`: a mutation that forgets the bit
enable_value_forgets(value, index) == value

\* `value | 1 << index`
enable_value(value, index) == value \cup Shl1(index)

\* `value & !(1 << index)`: a mutation that clears the whole word
disable_value_clears(value, index) == {}

\* `value & !(1 << index)`
disable_value(value, index) == value \cap (AllOnes \ Shl1(index))

\* InterruptEnableCtxX[context].InterruptSources[group].get()
enable_word_get(en, source, context) ==
    en[context][parse_group_and_index(source)[1]]

\* InterruptEnableCtxX[context].InterruptSources[group].set(word)
enable_word_set(en, source, context, word) ==
    [en EXCEPT ![context][parse_group_and_index(source)[1]] = word]

\* Plic::enable on the enable registers `en`, its read and its write in one step
enable_regs(en, source, context) ==
    enable_word_set(en, source, context,
        enable_value(enable_word_get(en, source, context),
                     parse_group_and_index(source)[2]))

\* Plic::disable on the enable registers `en`, its read and its write in one step
disable_regs(en, source, context) ==
    enable_word_set(en, source, context,
        disable_value(enable_word_get(en, source, context),
                      parse_group_and_index(source)[2]))

\* Plic::is_enabled: what the call returns in the current state
is_enabled(source, context) ==
    (enable_word_get(InterruptEnableCtxX, source, context)
        \cap Shl1(parse_group_and_index(source)[2])) # {}

\* The two array indexings of enable, disable and is_enabled
EnableIndexOk(source, context) ==
    ContextIndexOk(context) /\ GroupIndexOk(parse_group_and_index(source)[1])

\* Plic::enable called by a single caller; `last.value` keeps the word it read
enable(source, context) ==
    /\ IF EnableIndexOk(source, context)
       THEN /\ InterruptEnableCtxX' = enable_regs(InterruptEnableCtxX, source, context)
            /\ last' = Call("enable", source, context,
                            enable_word_get(InterruptEnableCtxX, source, context), RetUnit)
       ELSE /\ UNCHANGED InterruptEnableCtxX
            /\ last' = Call("enable", source, context, {}, RetPanic)
    /\ UNCHANGED <<InterruptPriority, PriorityThreshold, PrioBits, hwVars, histVars, hartVars>>

\* Plic::disable called by a single caller; `last.value` keeps the word it read
disable(source, context) ==
    /\ IF EnableIndexOk(source, context)
       THEN /\ InterruptEnableCtxX' = disable_regs(InterruptEnableCtxX, source, context)
            /\ last' = Call("disable", source, context,
                            enable_word_get(InterruptEnableCtxX, source, context), RetUnit)
       ELSE /\ UNCHANGED InterruptEnableCtxX
            /\ last' = Call("disable", source, context, {}, RetPanic)
    /\ UNCHANGED <<InterruptPriority, PriorityThreshold, PrioBits, hwVars, histVars, hartVars>>

\* A call of Plic::is_enabled
call_is_enabled(source, context) ==
    /\ last' = Call("is_enabled", source, context, {},
                    IF EnableIndexOk(source, context)
                    THEN RetBool(is_enabled(source, context))
                    ELSE RetPanic)
    /\ UNCHANGED <<regVars, hwVars, histVars, hartVars>>

(* ---------------------------------------------------------------------- *)
(* Priority and threshold registers                                        *)
(* ---------------------------------------------------------------------- *)
\* The controller keeps the implemented low bits of a word written to a
\* priority or threshold register and reads the others as 0.
HwMasked(value) == value \cap (0 .. (PrioBits - 1))

\* InterruptPriority[source].set(value): a mutation that indexes from 0
priority_set_off_by_one(pr, source, value) ==
    [pr EXCEPT ![source - 1] = HwMasked(value)]

\* InterruptPriority[source].set(value)
priority_set(pr, source, value) == [pr EXCEPT ![source] = HwMasked(value)]

\* Plic::get_priority: what the call returns in the current state
get_priority(source) == InterruptPriority[source]

\* Plic::probe_priority_bits: what the call would return in the current state
probe_priority_bits_ret(source) ==
    priority_set(InterruptPriority, source, AllOnes)[source]

\* Plic::set_priority
set_priority(source, value) ==
    /\ IF SourceIndexOk(source)
       THEN /\ InterruptPriority' = priority_set(InterruptPriority, source, value)
            /\ last' = Call("set_priority", source, 0, value, RetUnit)
       ELSE /\ UNCHANGED InterruptPriority
            /\ last' = Call("set_priority", source, 0, value, RetPanic)
    /\ UNCHANGED <<InterruptEnableCtxX, PriorityThreshold, PrioBits, hwVars, histVars, hartVars>>

\* A call of Plic::get_priority
call_get_priority(source) ==
    /\ last' = Call("get_priority", source, 0, {},
                    IF SourceIndexOk(source) THEN RetU32(get_priority(source)) ELSE RetPanic)
    /\ UNCHANGED <<regVars, hwVars, histVars, hartVars>>

\* Plic::probe_priority_bits: set(!0), then get
probe_priority_bits(source) ==
    /\ IF SourceIndexOk(source)
       THEN /\ InterruptPriority' = priority_set(InterruptPriority, source, AllOnes)
            /\ last' = Call("probe_priority_bits", source, 0, {},
                            RetU32(InterruptPriority'[source]))
       ELSE /\ UNCHANGED InterruptPriority
            /\ last' = Call("probe_priority_bits", source, 0, {}, RetPanic)
    /\ UNCHANGED <<InterruptEnableCtxX, PriorityThreshold, PrioBits, hwVars, histVars, hartVars>>

\* Contexts[context].PriorityThreshold.set(value): a mutation that always
\* writes the threshold of context 0
threshold_set_context0(th, context, value) == [th EXCEPT ![0] = HwMasked(value)]

\* Contexts[context].PriorityThreshold.set(value): a mutation that loses the
\* 4096-byte stride and writes the threshold of every context
threshold_set_every_context(th, context, value) ==
    [c \in DOMAIN th |-> HwMasked(value)]

\* Contexts[context].PriorityThreshold.set(value)
threshold_set(th, context, value) == [th EXCEPT ![context] = HwMasked(value)]

\* Plic::get_threshold: what the call returns in the current state
get_threshold(context) == PriorityThreshold[context]

\* Plic::set_threshold
set_threshold(context, value) ==
    /\ IF ContextIndexOk(context)
       THEN /\ PriorityThreshold' = threshold_set(PriorityThreshold, context, value)
            /\ written' = [written EXCEPT ![context] = value]
            /\ last' = Call("set_threshold", 0, context, value, RetUnit)
       ELSE /\ UNCHANGED <<PriorityThreshold, written>>
            /\ last' = Call("set_threshold", 0, context, value, RetPanic)
    /\ UNCHANGED <<InterruptPriority, InterruptEnableCtxX, PrioBits, hwVars,
                   asserted, token, hartVars>>

\* Plic::init_by_context: PriorityThreshold.set(0)
init_by_context(context) ==
    /\ IF ContextIndexOk(context)
       THEN /\ PriorityThreshold' = threshold_set(PriorityThreshold, context, U32(0))
            /\ written' = [written EXCEPT ![context] = U32(0)]
            /\ last' = Call("init_by_context", 0, context, {}, RetUnit)
       ELSE /\ UNCHANGED <<PriorityThreshold, written>>
            /\ last' = Call("init_by_context", 0, context, {}, RetPanic)
    /\ UNCHANGED <<InterruptPriority, InterruptEnableCtxX, PrioBits, hwVars,
                   asserted, token, hartVars>>

\* A call of Plic::get_threshold
call_get_threshold(context) ==
    /\ last' = Call("get_threshold", 0, context, {},
                    IF ContextIndexOk(context) THEN RetU32(get_threshold(context)) ELSE RetPanic)
    /\ UNCHANGED <<regVars, hwVars, histVars, hartVars>>

\* Plic::probe_threshold_bits: set(!0), then get
probe_threshold_bits(context) ==
    /\ IF ContextIndexOk(context)
       THEN /\ PriorityThreshold' = threshold_set(PriorityThreshold, context, AllOnes)
            /\ written' = [written EXCEPT ![context] = AllOnes]
            /\ last' = Call("probe_threshold_bits", 0, context, {},
                            RetU32(PriorityThreshold'[context]))
       ELSE /\ UNCHANGED <<PriorityThreshold, written>>
            /\ last' = Call("probe_threshold_bits", 0, context, {}, RetPanic)
    /\ UNCHANGED <<InterruptPriority, InterruptEnableCtxX, PrioBits, hwVars,
                   asserted, token, hartVars>>

(* ---------------------------------------------------------------------- *)
(* The controller: pending bits, arbitration, claim and completion         *)
(* ---------------------------------------------------------------------- *)
\* The enable bit of `source` for `context`, as the controller reads it:
\* bit source % 32 of word source / 32.
HwEnabled(source, context) ==
    (source % U32_BITS) \in InterruptEnableCtxX[context][source \div U32_BITS]

\* A source is eligible for a context when it is pending, enabled for the
\* context and its priority is strictly greater than the context's threshold.
HwEligible(source, context) ==
    /\ source \in pending
    /\ HwEnabled(source, context)
    /\ WordGt(InterruptPriority[source], PriorityThreshold[context])

\* The arbitration: the eligible source of the highest priority, the lowest
\* id among equals; 0 when no source is eligible.
HwBest(context) ==
    LET elig == {s \in SrcIds : HwEligible(s, context)}
    IN  IF elig = {} THEN 0
        ELSE CHOOSE s \in elig :
                \A t \in elig :
                    \/ WordGt(InterruptPriority[s], InterruptPriority[t])
                    \/ (InterruptPriority[s] = InterruptPriority[t] /\ s <= t)

\* A read of the claim/complete register of `context`: the word read, and
\* the pending and claimed sources after it (the read clears the pending bit
\* of the source it returns and closes its gateway).
HwClaimRead(context) ==
    LET s == HwBest(context)
    IN  [word |-> U32(s),
         pending |-> pending \ {s},
         claimed |-> IF s = 0 THEN claimed ELSE claimed \cup {s}]

\* A write of `word` to the claim/complete register of `context`: the
\* claimed sources after it. The completion of a source that is not enabled
\* for the context is ignored.
HwCompleteWrite(context, word) ==
    claimed \ {s \in SrcIds : U32(s) = word /\ HwEnabled(s, context)}

\* A read of word `group` of the pending bitmap.
HwPendingWord(group) ==
    {s % U32_BITS : s \in {t \in pending : t \div U32_BITS = group}}

\* A source asserts: its gateway, open, forwards one request, which sets
\* the pending bit.
SourceAsserts(source) ==
    /\ source \notin pending \cup claimed
    /\ pending' = pending \cup {source}
    /\ asserted' = asserted \cup {source}
    /\ last' = Call("assert", source, 0, {}, RetUnit)
    /\ UNCHANGED <<regVars, claimed, token, written, hartVars>>

(* ---------------------------------------------------------------------- *)
(* Pending, claim and complete                                             *)
(* ---------------------------------------------------------------------- *)
\* Plic::is_pending: a mutation that reads the enable bitmap of context 0
\* (offset 0x2000) instead of the pending bitmap (offset 0x1000)
is_pending_reads_enable(source) == is_enabled(source, 0)

\* Plic::is_pending: what the call returns in the current state
is_pending(source) ==
    (HwPendingWord(parse_group_and_index(source)[1])
        \cap Shl1(parse_group_and_index(source)[2])) # {}

\* A call of Plic::is_pending
call_is_pending(source) ==
    /\ last' = Call("is_pending", source, 0, {},
                    IF GroupIndexOk(parse_group_and_index(source)[1])
                    THEN RetBool(is_pending(source))
                    ELSE RetPanic)
    /\ UNCHANGED <<regVars, hwVars, histVars, hartVars>>

\* Contexts[context].InterruptClaimComplete.get(): a mutation that reads
\* the register at offset 0 of the context, PriorityThreshold
claim_register_get_threshold(context) ==
    [word |-> PriorityThreshold[context], pending |-> pending, claimed |-> claimed]

\* Contexts[context].InterruptClaimComplete.get(): a mutation that looks
\* the source up in the pending bitmap and the enable words instead
claim_register_get_polls(context) ==
    [word |-> HwClaimRead(context).word, pending |-> pending, claimed |-> claimed]

\* Contexts[context].InterruptClaimComplete.get()
claim_register_get(context) == HwClaimRead(context)

\* NonZeroU32::new: a mutation that wraps every word
NonZeroU32_new_unchecked(word) == RetSome(word)

\* NonZeroU32::new
NonZeroU32_new(word) == IF word = U32(0) THEN RetNone ELSE RetSome(word)

\* The sources whose id is the word a claim returned.
SourcesOf(ret) == {s \in SrcIds : ret.tag = "some" /\ U32(s) = ret.val}

\* Plic::claim
claim(context) ==
    /\ IF ContextIndexOk(context)
       THEN LET r == claim_register_get(context)
                ret == NonZeroU32_new(r.word)
            IN  /\ pending' = r.pending
                /\ claimed' = r.claimed
                /\ last' = Call("claim", 0, context, {}, ret)
                /\ asserted' = asserted \ SourcesOf(ret)
                /\ token' = [token EXCEPT ![context] = @ \cup SourcesOf(ret)]
       ELSE /\ UNCHANGED <<pending, claimed, asserted, token>>
            /\ last' = Call("claim", 0, context, {}, RetPanic)
    /\ UNCHANGED <<regVars, written, hartVars>>

\* Plic::complete: InterruptClaimComplete.set(source.id().get())
complete(context, source) ==
    /\ IF ContextIndexOk(context)
       THEN /\ claimed' = HwCompleteWrite(context, U32(source))
            /\ token' = [token EXCEPT ![context] = @ \ {source}]
            /\ last' = Call("complete", source, context, {}, RetUnit)
       ELSE /\ UNCHANGED <<claimed, token>>
            /\ last' = Call("complete", source, context, {}, RetPanic)
    /\ UNCHANGED <<regVars, pending, asserted, written, hartVars>>

(* ---------------------------------------------------------------------- *)
(* Concurrent callers: each hart makes one call, one register access per   *)
(* step                                                                    *)
(* ---------------------------------------------------------------------- *)
\* The call of a hart: the operation, its arguments, the position in it,
\* the local `value` of enable/disable and the word a probe returned.
HartCall(op, source, context, arg, pc) ==
    [pc |-> pc, op |-> op, source |-> source, context |-> context,
     arg |-> arg, value |-> {}, ret |-> {}]

\* The (context, group) of the enable word a call of enable/disable accesses.
WordOf(call) == <<call.context, parse_group_and_index(call.source)[1]>>

\* A hart is mid-call: it has made the first register access of a call of
\* two and not the second.
MidCall(h) == harts[h].pc \in {"set", "probe_get"}

\* A register access by hart h overlaps the call of another hart.
Overlaps(h) == overlap \/ \E o \in HartIds \ {h} : MidCall(o)

\* External serialisation: the caller takes the lock of the (context, group)
\* it is about to read-modify-write.
hart_lock(h) ==
    /\ harts[h].pc = "lock"
    /\ \A l \in lock : <<l[2], l[3]>> # WordOf(harts[h])
    /\ lock' = lock \cup {<<h, WordOf(harts[h])[1], WordOf(harts[h])[2]>>}
    /\ harts' = [harts EXCEPT ![h].pc = "get"]
    /\ UNCHANGED <<regVars, hwVars, last, histVars, serialized, start, overlap>>

\* External serialisation: the caller releases the lock after the write.
hart_unlock(h) ==
    /\ harts[h].pc = "unlock"
    /\ lock' = {l \in lock : l[1] # h}
    /\ harts' = [harts EXCEPT ![h].pc = "done"]
    /\ UNCHANGED <<regVars, hwVars, last, histVars, serialized, start, overlap>>

\* Plic::enable and Plic::disable, the read:
\* let value = InterruptEnableCtxX[context].InterruptSources[group].get()
hart_enable_get(h) ==
    /\ harts[h].pc = "get"
    /\ harts' = [harts EXCEPT
                    ![h].value = enable_word_get(InterruptEnableCtxX,
                                                 harts[h].source, harts[h].context),
                    ![h].pc = "set"]
    /\ overlap' = Overlaps(h)
    /\ UNCHANGED <<regVars, hwVars, last, histVars, lock, serialized, start>>

\* Plic::enable, the write: .set(value | 1 << index)
hart_enable_set(h) ==
    /\ harts[h].pc = "set" /\ harts[h].op = "enable"
    /\ InterruptEnableCtxX' =
          enable_word_set(InterruptEnableCtxX, harts[h].source, harts[h].context,
              enable_value(harts[h].value, parse_group_and_index(harts[h].source)[2]))
    /\ harts' = [harts EXCEPT ![h].pc = IF serialized THEN "unlock" ELSE "done"]
    /\ overlap' = Overlaps(h)
    /\ UNCHANGED <<InterruptPriority, PriorityThreshold, PrioBits, hwVars, last,
                   histVars, lock, serialized, start>>

\* Plic::disable, the write: .set(value & !(1 << index))
hart_disable_set(h) ==
    /\ harts[h].pc = "set" /\ harts[h].op = "disable"
    /\ InterruptEnableCtxX' =
          enable_word_set(InterruptEnableCtxX, harts[h].source, harts[h].context,
              disable_value(harts[h].value, parse_group_and_index(harts[h].source)[2]))
    /\ harts' = [harts EXCEPT ![h].pc = IF serialized THEN "unlock" ELSE "done"]
    /\ overlap' = Overlaps(h)
    /\ UNCHANGED <<InterruptPriority, PriorityThreshold, PrioBits, hwVars, last,
                   histVars, lock, serialized, start>>

\* Plic::set_threshold and Plic::init_by_context: PriorityThreshold.set(value)
hart_threshold_set(h) ==
    /\ harts[h].pc = "threshold_set"
    /\ PriorityThreshold' =
          threshold_set(PriorityThreshold, harts[h].context, harts[h].arg)
    /\ written' = [written EXCEPT ![harts[h].context] = harts[h].arg]
    /\ harts' = [harts EXCEPT ![h].pc = "done"]
    /\ overlap' = Overlaps(h)
    /\ UNCHANGED <<InterruptPriority, InterruptEnableCtxX, PrioBits, hwVars, last,
                   asserted, token, lock, serialized, start>>

\* Plic::probe_threshold_bits, the write: PriorityThreshold.set(!0)
hart_probe_threshold_set(h) ==
    /\ harts[h].pc = "probe_set"
    /\ PriorityThreshold' = threshold_set(PriorityThreshold, harts[h].context, AllOnes)
    /\ written' = [written EXCEPT ![harts[h].context] = AllOnes]
    /\ harts' = [harts EXCEPT ![h].pc = "probe_get"]
    /\ overlap' = Overlaps(h)
    /\ UNCHANGED <<InterruptPriority, InterruptEnableCtxX, PrioBits, hwVars, last,
                   asserted, token, lock, serialized, start>>

\* Plic::probe_threshold_bits, the read: PriorityThreshold.get()
hart_probe_threshold_get(h) ==
    /\ harts[h].pc = "probe_get"
    /\ harts' = [harts EXCEPT ![h].ret = PriorityThreshold[harts[h].context],
                               ![h].pc = "done"]
    /\ overlap' = Overlaps(h)
    /\ UNCHANGED <<regVars, hwVars, last, histVars, lock, serialized, start>>

\* The enable and threshold registers after a whole call, made alone.
CallApplied(regs, call) ==
    CASE call.op = "enable" ->
            [regs EXCEPT !.en = enable_regs(@, call.source, call.context)]
      [] call.op = "disable" ->
            [regs EXCEPT !.en = disable_regs(@, call.source, call.context)]
      [] call.op \in {"set_threshold", "init_by_context"} ->
            [regs EXCEPT !.th = threshold_set(@, call.context, call.arg)]
      [] call.op = "probe_threshold_bits" ->
            [regs EXCEPT !.th = threshold_set(@, call.context, AllOnes)]

(* ---------------------------------------------------------------------- *)
(* Initial values shared by the specifications                             *)
(* ---------------------------------------------------------------------- *)
\* The bits of enable group `group` that belong to the callers' sources.
UsedBits(group) ==
    {parse_group_and_index(s)[2] :
        s \in {t \in SrcIds : parse_group_and_index(t)[1] = group}}

\* Bit 31 of an enable word: a source no caller uses.
OtherBit == U32_BITS - 1

\* The enable registers as the callers find them: every bit of the callers'
\* sources clear or every one set, and bit 31 of every word clear or set.
InitEnableRegs ==
    {[c \in CtxIds |-> [g \in GroupIds |-> (IF used THEN UsedBits(g) ELSE {}) \cup other]] :
        used \in BOOLEAN, other \in {{}, {OtherBit}}}

\* No hart is in a call.
HartIdle == [pc |-> "idle", op |-> "none", source |-> 0, context |-> 0,
             arg |-> {}, value |-> {}, ret |-> {}]

NoHarts ==
    /\ harts = [h \in HartIds |-> HartIdle]
    /\ lock = {}
    /\ serialized = FALSE
    /\ start = [en |-> InterruptEnableCtxX, th |-> PriorityThreshold]
    /\ overlap = FALSE

NoHistory ==
    /\ asserted = pending
    /\ token = [c \in CtxIds |-> {}]
    /\ written = PriorityThreshold

(* ---------------------------------------------------------------------- *)
(* SpecEnable: one caller of enable, disable and is_enabled, from any      *)
(* enable-register state                                                   *)
(* ---------------------------------------------------------------------- *)
InitEnable ==
    /\ InterruptEnableCtxX \in InitEnableRegs
    /\ PrioBits = MaxPrioBits
    /\ InterruptPriority = [s \in SrcIds |-> U32(s % (MaxPrio + 1))]
    /\ PriorityThreshold = [c \in CtxIds |-> U32(c)]
    /\ pending = {2}
    /\ claimed = {}
    /\ last = NoCall
    /\ NoHistory
    /\ NoHarts

NextEnable ==
    \E source \in SrcIds, context \in CtxIds :
        \/ enable(source, context)
        \/ disable(source, context)
        \/ call_is_enabled(source, context)

SpecEnable == InitEnable /\ [][NextEnable]_vars

(* ---------------------------------------------------------------------- *)
(* SpecPriority: one caller of the priority registers, on a controller     *)
(* that implements 1 .. MaxPrioBits priority bits                          *)
(* ---------------------------------------------------------------------- *)
\* The words the callers write: 0 .. MaxPrio, the first value past the
\* widest implemented range, and all ones.
WriteValues == {U32(n) : n \in 0 .. MaxPrio} \cup {U32(2 ^ MaxPrioBits), AllOnes}

InitPriority ==
    /\ PrioBits \in 1 .. MaxPrioBits
    /\ InterruptPriority \in [SrcIds -> {U32(0), U32(1)}]
    /\ InterruptEnableCtxX = [c \in CtxIds |-> [g \in GroupIds |-> UsedBits(g)]]
    /\ PriorityThreshold = [c \in CtxIds |-> U32(0)]
    /\ pending = {}
    /\ claimed = {}
    /\ last = NoCall
    /\ NoHistory
    /\ NoHarts

NextPriority ==
    \E source \in SrcIds :
        \/ \E value \in WriteValues : set_priority(source, value)
        \/ call_get_priority(source)
        \/ probe_priority_bits(source)

SpecPriority == InitPriority /\ [][NextPriority]_vars

(* ---------------------------------------------------------------------- *)
(* SpecClaim: the sources of ClaimSrc assert; the contexts claim, complete *)
(* what they claimed and set their thresholds, in any order                *)
(* ---------------------------------------------------------------------- *)
\* The words the callers write to a threshold: 0 .. MaxPrio and the first
\* value past the implemented range.
ThresholdValues == {U32(n) : n \in 0 .. MaxPrio} \cup {U32(2 ^ MaxPrioBits)}

\* The enable word `group` in which exactly the sources of `on` are enabled.
EnableWordOf(on, group) ==
    {s % U32_BITS : s \in {t \in on : t \div U32_BITS = group}}

\* Every context has any of the sources of ClaimSrc enabled; the priorities
\* of ClaimSrc are any of 0 .. MaxPrio.
InitClaim ==
    /\ PrioBits = MaxPrioBits
    /\ InterruptPriority \in
          {pr \in [SrcIds -> {U32(n) : n \in 0 .. MaxPrio}] :
              \A s \in SrcIds \ ClaimSrc : pr[s] = U32(0)}
    /\ \E on \in [CtxIds -> SUBSET ClaimSrc] :
          InterruptEnableCtxX =
            [c \in CtxIds |-> [g \in GroupIds |-> EnableWordOf(on[c], g)]]
    /\ PriorityThreshold = [c \in CtxIds |-> U32(0)]
    /\ pending = {}
    /\ claimed = {}
    /\ last = NoCall
    /\ NoHistory
    /\ NoHarts

NextClaim ==
    \/ \E source \in ClaimSrc : SourceAsserts(source)
    \/ \E context \in CtxIds : claim(context)
    \/ \E context \in CtxIds : \E source \in token[context] : complete(context, source)
    \/ \E context \in CtxIds : \E value \in ThresholdValues : set_threshold(context, value)

SpecClaim == InitClaim /\ [][NextClaim]_vars

(* ---------------------------------------------------------------------- *)
(* SpecHarts: two harts, each in one call of enable, disable,              *)
(* set_threshold, init_by_context or probe_threshold_bits, with and        *)
(* without the external (context, group) lock                              *)
(* ---------------------------------------------------------------------- *)
\* The calls a hart makes, at their first step.
HartCalls(locked) ==
    {HartCall(op, s, c, {}, IF locked THEN "lock" ELSE "get") :
        op \in {"enable", "disable"}, s \in SrcIds, c \in CtxIds}
    \cup {HartCall("set_threshold", 0, c, v, "threshold_set") :
            c \in CtxIds, v \in {U32(n) : n \in 1 .. MaxPrio}}
    \cup {HartCall("init_by_context", 0, c, U32(0), "threshold_set") : c \in CtxIds}
    \cup {HartCall("probe_threshold_bits", 0, c, {}, "probe_set") : c \in CtxIds}

InitHarts ==
    /\ PrioBits = MaxPrioBits
    /\ InterruptPriority = [s \in SrcIds |-> U32(1)]
    /\ InterruptEnableCtxX \in InitEnableRegs
    /\ PriorityThreshold = [c \in CtxIds |-> U32(1)]
    /\ pending = {}
    /\ claimed = {}
    /\ last = NoCall
    /\ NoHistory
    /\ serialized \in BOOLEAN
    /\ harts \in [HartIds -> HartCalls(serialized)]
    /\ lock = {}
    /\ start = [en |-> InterruptEnableCtxX, th |-> PriorityThreshold]
    /\ overlap = FALSE

NextHarts ==
    \E h \in HartIds :
        \/ hart_lock(h)
        \/ hart_enable_get(h)
        \/ hart_enable_set(h)
        \/ hart_disable_set(h)
        \/ hart_unlock(h)
        \/ hart_threshold_set(h)
        \/ hart_probe_threshold_set(h)
        \/ hart_probe_threshold_get(h)

SpecHarts == InitHarts /\ [][NextHarts]_vars

(* ---------------------------------------------------------------------- *)
(* Properties of the enable registers (SpecEnable)                         *)
(* ---------------------------------------------------------------------- *)
\* C1: right after enable(s, c) returns, is_enabled(s, c) returns true, and
\* right after disable(s, c) returns, is_enabled(s, c) returns false,
\* whatever the enable registers held before.
C1_EnableThenDisable ==
    /\ (last.op = "enable" /\ last.ret = RetUnit)
          => is_enabled(last.source, last.context)
    /\ (last.op = "disable" /\ last.ret = RetUnit)
          => ~is_enabled(last.source, last.context)

\* C1 witness: disable(2, 1) has just cleared a bit that was set, in a word
\* whose other bits (source 1, bit 31) are set.
C1_Witness ==
    /\ last.op = "disable" /\ last.source = 2 /\ last.context = 1
    /\ last.value = {1, 2, OtherBit}
    /\ ~is_enabled(2, 1) /\ is_enabled(1, 1)

\* C2: a step of enable(s, c) or disable(s, c) leaves every bit of every
\* enable word other than the bit of (s, c) as it was, so is_enabled(s2, c2)
\* is unchanged for every other pair, and leaves every priority, every
\* threshold and every pending bit as it was.
C2_EnableDisableFrame ==
    [][(last'.op \in {"enable", "disable"})
        => /\ \A c2 \in CtxIds, g \in GroupIds, b \in Bits :
                 (c2 # last'.context
                    \/ g # parse_group_and_index(last'.source)[1]
                    \/ b # parse_group_and_index(last'.source)[2])
                 => ((b \in InterruptEnableCtxX'[c2][g]) <=> (b \in InterruptEnableCtxX[c2][g]))
           /\ \A s2 \in SrcIds, c2 \in CtxIds :
                 (s2 # last'.source \/ c2 # last'.context)
                 => (is_enabled(s2, c2)' <=> is_enabled(s2, c2))
           /\ InterruptPriority' = InterruptPriority
           /\ PriorityThreshold' = PriorityThreshold
           /\ pending' = pending]_vars

\* C2 witness: enable(1, 0) has set a clear bit of a word in which the bit
\* of source 2 and bit 31 are set, and they still are.
C2_Witness ==
    /\ last.op = "enable" /\ last.source = 1 /\ last.context = 0
    /\ last.value = {2, OtherBit}
    /\ InterruptEnableCtxX[0][0] = {1, 2, OtherBit}

(* ---------------------------------------------------------------------- *)
(* Properties of the priority registers (SpecPriority)                     *)
(* ---------------------------------------------------------------------- *)
\* C10: after set_priority(s, v), get_priority(s) returns v AND the value
\* that probe_priority_bits(s) returns (v masked to the implemented priority
\* bits), and the priority of every other source is as it was.
C10_SetThenGetPriority ==
    [][\A s \in SrcIds :
        (last'.op = "set_priority" /\ last'.source = s /\ last'.ret = RetUnit)
        => /\ get_priority(s)' = (last'.value \cap probe_priority_bits_ret(s)')
           /\ \A s2 \in SrcIds \ {s} : get_priority(s2)' = get_priority(s2)]_vars

\* C10 witness: set_priority(33, all ones) on a controller with 1 priority
\* bit has left priority 1 in source 33, next to a source of priority 0.
C10_Witness ==
    /\ last.op = "set_priority" /\ last.source = 33 /\ last.value = AllOnes
    /\ PrioBits = 1
    /\ get_priority(33) = U32(1) /\ get_priority(2) = U32(0)

(* ---------------------------------------------------------------------- *)
(* Properties of claim and complete (SpecClaim)                            *)
(* ---------------------------------------------------------------------- *)
\* Eligibility as the driver's own getters report it.
Eligible(source, context) ==
    /\ is_pending(source)
    /\ is_enabled(source, context)
    /\ WordGt(get_priority(source), get_threshold(context))

\* The step is claim(context) returning `source`.
ClaimReturns(context, source) ==
    last' = Call("claim", 0, context, {}, RetSome(U32(source)))

C4_ClaimReturnsBest ==
    [][\A c \in CtxIds :
        (last'.op = "claim" /\ last'.context = c /\ last'.ret # RetPanic
            /\ \E s \in SrcIds : Eligible(s, c))
        => \E s \in SrcIds :
              /\ Eligible(s, c)
              /\ last'.ret = RetSome(U32(s))
              /\ \A t \in SrcIds :
                    Eligible(t, c)
                    => /\ ~WordGt(get_priority(t), get_priority(s))
                       /\ (get_priority(t) = get_priority(s) => s <= t)]_vars

\* C4 witness: claim(0) has returned source 1 while source 33, of the same
\* priority, enabled for context 0 and above its threshold, stays pending.
C4_Witness ==
    /\ last = Call("claim", 0, 0, {}, RetSome(U32(1)))
    /\ get_priority(1) = get_priority(33)
    /\ Eligible(33, 0)

C6_ClaimCompleteRoundTrip ==
    [][/\ \A c \in CtxIds, s \in SrcIds :
            ClaimReturns(c, s)
            => (is_pending(s) /\ ~is_pending(s)' /\ s \in asserted)
       /\ last'.op = "complete"
            => \A s \in SrcIds : is_pending(s)' = is_pending(s)]_vars

\* C6 witness: context 0 claimed source 1 and has just completed it; source
\* 1 has not asserted again and is neither pending nor claimed.
C6_Witness ==
    /\ last = Call("complete", 1, 0, {}, RetUnit)
    /\ 1 \notin asserted /\ ~is_pending(1) /\ 1 \notin claimed
    /\ is_enabled(1, 0) /\ WordGt(get_priority(1), get_threshold(0))

\* C7: no source is held, claimed and not completed, by two contexts at
\* once, and a source a context holds is not pending: one assertion is
\* returned by at most one claim, in every interleaving of the contexts'
\* claims.
C7_OneClaimPerAssertion ==
    /\ \A c1 \in CtxIds, c2 \in CtxIds : c1 # c2 => token[c1] \cap token[c2] = {}
    /\ \A c \in CtxIds : \A s \in token[c] : ~is_pending(s)

\* C7 witness: both contexts have both sources enabled; context 0 holds
\* source 33 and context 1 has then claimed source 1.
C7_Witness ==
    /\ \A c \in CtxIds, s \in ClaimSrc : is_enabled(s, c)
    /\ token[0] = {33} /\ token[1] = {1}
    /\ last = Call("claim", 0, 1, {}, RetSome(U32(1)))


(* ---------------------------------------------------------------------- *)
(* Properties of concurrent callers (SpecHarts)                            *)
(* ---------------------------------------------------------------------- *)
AllDone == \A h \in HartIds : harts[h].pc = "done"

EnableCall(h) == harts[h].op \in {"enable", "disable"}

\* The call of hart h has taken effect: its source reads back enabled after
\* enable and disabled after disable.
TookEffect(h) ==
    is_enabled(harts[h].source, harts[h].context) = (harts[h].op = "enable")

\* Harts h1 and h2 call enable/disable for different sources of one 32-source
\* group of one context.
SameWordCalls(h1, h2) ==
    /\ EnableCall(h1) /\ EnableCall(h2)
    /\ harts[h1].context = harts[h2].context
    /\ harts[h1].source # harts[h2].source
    /\ harts[h1].source \div U32_BITS = harts[h2].source \div U32_BITS

\* C8: two enable/disable calls for different sources of the same 32-source
\* group of the same context both take effect whenever their read-modify-write
\* sequences are serialized per (context, group); the effect of a call is lost
\* only without serialization, and only when the two calls overlapped.
C8_SerializedBothTakeEffect ==
    \A h1 \in HartIds : \A h2 \in HartIds \ {h1} :
        (AllDone /\ SameWordCalls(h1, h2))
        => /\ serialized => (TookEffect(h1) /\ TookEffect(h2))
           /\ ~TookEffect(h1) => (~serialized /\ overlap)

\* C8 witness: without serialization, two overlapping calls on one enable
\* word have finished and the effect of one of them is lost.
C8_Witness ==
    \E h1 \in HartIds : \E h2 \in HartIds \ {h1} :
        /\ AllDone /\ SameWordCalls(h1, h2)
        /\ ~serialized
        /\ ~TookEffect(h1) /\ TookEffect(h2)

\* Harts h1 and h2 make calls on different contexts, or enable/disable calls
\* on one context and different 32-source groups.
IndependentCalls(h1, h2) ==
    \/ harts[h1].context # harts[h2].context
    \/ /\ EnableCall(h1) /\ EnableCall(h2)
       /\ harts[h1].context = harts[h2].context
       /\ harts[h1].source \div U32_BITS # harts[h2].source \div U32_BITS

\* The enable and threshold registers after the call of h1 and then the call
\* of h2, each made alone, from the registers the harts started with.
OneAfterTheOther(h1, h2) == CallApplied(CallApplied(start, harts[h1]), harts[h2])

\* C9: for calls on different contexts, or enable/disable calls on the same
\* context and different 32-source groups, every interleaving of the register
\* accesses ends in the enable and threshold state of running the two calls one
\* after the other, in either order.
C9_IndependentCallsCommute ==
    \A h1 \in HartIds : \A h2 \in HartIds \ {h1} :
        (AllDone /\ IndependentCalls(h1, h2))
        => [en |-> InterruptEnableCtxX, th |-> PriorityThreshold]
             = OneAfterTheOther(h1, h2)

\* C9 witness: two unserialized calls on different contexts overlapped and
\* finished, and each changed a register.
C9_Witness ==
    \E h1 \in HartIds : \E h2 \in HartIds \ {h1} :
        /\ AllDone /\ ~serialized /\ overlap
        /\ harts[h1].context # harts[h2].context
        /\ harts[h1].op = "enable" /\ harts[h2].op = "probe_threshold_bits"
        /\ InterruptEnableCtxX # start.en
        /\ PriorityThreshold # start.th

(* ---------------------------------------------------------------------- *)
(* SpecProbe: one caller that sets and probes priorities and thresholds,   *)
(* on a controller that implements 1 .. MaxPrioBits bits, from any         *)
(* register state                                                          *)
(* ---------------------------------------------------------------------- *)
\* Plic::probe_threshold_bits: what the call would return in the current state
probe_threshold_bits_ret(context) ==
    threshold_set(PriorityThreshold, context, AllOnes)[context]

InitProbe ==
    /\ PrioBits \in 1 .. MaxPrioBits
    /\ InterruptPriority \in [SrcIds -> {U32(0), U32(1)}]
    /\ InterruptEnableCtxX = [c \in CtxIds |-> [g \in GroupIds |-> UsedBits(g)]]
    /\ PriorityThreshold \in [CtxIds -> {U32(0), U32(1)}]
    /\ pending = {}
    /\ claimed = {}
    /\ last = NoCall
    /\ NoHistory
    /\ NoHarts

NextProbe ==
    \/ \E source \in SrcIds : \E value \in WriteValues : set_priority(source, value)
    \/ \E source \in SrcIds : probe_priority_bits(source)
    \/ \E context \in CtxIds : \E value \in ThresholdValues : set_threshold(context, value)
    \/ \E context \in CtxIds : probe_threshold_bits(context)

SpecProbe == InitProbe /\ [][NextProbe]_vars

(* ---------------------------------------------------------------------- *)
(* Properties of the probes (SpecProbe)                                    *)
(* ---------------------------------------------------------------------- *)
\* C11: from any register state, probe_priority_bits(s) returns the largest
\* implemented priority, the priority register of s then holds it, a second
\* probe of s would return the same value, and no other priority and no
\* threshold changes; likewise probe_threshold_bits(c) for the threshold of
\* c, with no other threshold and no priority changed.
C11_ProbeIdempotent ==
    [][/\ \A s \in SrcIds :
            (last'.op = "probe_priority_bits" /\ last'.source = s)
            => /\ last'.ret = RetU32(HwMasked(AllOnes))
               /\ get_priority(s)' = last'.ret.val
               /\ probe_priority_bits_ret(s)' = last'.ret.val
               /\ \A s2 \in SrcIds \ {s} : get_priority(s2)' = get_priority(s2)
               /\ PriorityThreshold' = PriorityThreshold
       /\ \A c \in CtxIds :
            (last'.op = "probe_threshold_bits" /\ last'.context = c)
            => /\ last'.ret = RetU32(HwMasked(AllOnes))
               /\ get_threshold(c)' = last'.ret.val
               /\ probe_threshold_bits_ret(c)' = last'.ret.val
               /\ \A c2 \in CtxIds \ {c} : get_threshold(c2)' = get_threshold(c2)
               /\ InterruptPriority' = InterruptPriority]_vars

\* C11 witness: context 1 has just been probed on a controller of
\* MaxPrioBits bits; its threshold holds the maximum while context 0 and a
\* priority hold other values.
C11_Witness ==
    /\ last.op = "probe_threshold_bits" /\ last.context = 1
    /\ PrioBits = MaxPrioBits
    /\ last.ret = RetU32(0 .. (MaxPrioBits - 1))
    /\ get_threshold(1) = last.ret.val
    /\ get_threshold(0) = U32(1)
    /\ get_priority(2) = U32(1)

(* ---------------------------------------------------------------------- *)
(* SpecInit: the runs of SpecClaim with init_by_context added              *)
(* ---------------------------------------------------------------------- *)
NextInit ==
    \/ NextClaim
    \/ \E context \in CtxIds : init_by_context(context)

SpecInit == InitClaim /\ [][NextInit]_vars

(* ---------------------------------------------------------------------- *)
(* Properties of init_by_context (SpecInit)                                *)
(* ---------------------------------------------------------------------- *)
\* C12: after init_by_context(c), get_threshold(c) returns 0, every pending
\* source enabled for c with a nonzero priority is eligible for c and the
\* claim register of c then reads one of them, and every priority, every
\* enable word, every pending bit and the threshold of every other context
\* is as it was.
C12_InitByContext ==
    [][\A c \in CtxIds :
        (last'.op = "init_by_context" /\ last'.context = c /\ last'.ret = RetUnit)
        => /\ get_threshold(c)' = U32(0)
           /\ \A s \in SrcIds :
                (is_pending(s) /\ is_enabled(s, c) /\ get_priority(s) # U32(0))'
                => /\ Eligible(s, c)'
                   /\ NonZeroU32_new(claim_register_get(c).word)' # RetNone
           /\ InterruptPriority' = InterruptPriority
           /\ InterruptEnableCtxX' = InterruptEnableCtxX
           /\ \A s \in SrcIds : is_pending(s)' = is_pending(s)
           /\ \A c2 \in CtxIds \ {c} : get_threshold(c2)' = get_threshold(c2)]_vars

\* C12 witness: init_by_context(0) has just lowered the threshold of context
\* 0, which was written as MaxPrio, so that the pending, enabled source 33 of
\* priority 1 is eligible; the threshold of context 1 is still MaxPrio.
C12_Witness ==
    /\ last = Call("init_by_context", 0, 0, {}, RetUnit)
    /\ get_threshold(0) = U32(0)
    /\ get_threshold(1) = U32(MaxPrio)
    /\ get_priority(33) = U32(1)
    /\ Eligible(33, 0)

(* ---------------------------------------------------------------------- *)
(* SpecRange: one caller of every method of Plic, with source ids and      *)
(* context indices inside and outside the register arrays                  *)
(* ---------------------------------------------------------------------- *)
\* The source ids of the caller: one inside the arrays, the first id past
\* them and one further (group 33, bit 1).
RangeSrcIds == {33, SOURCE_NUM, SOURCE_NUM + 33}
\* The context indices of the caller: one inside the arrays and the first
\* past them.
RangeCtxIds == {1, CONTEXT_NUM}

InitRange ==
    /\ PrioBits = MaxPrioBits
    /\ InterruptPriority = [s \in SrcIds |-> U32(1)]
    /\ InterruptEnableCtxX = [c \in CtxIds |-> [g \in GroupIds |-> UsedBits(g)]]
    /\ PriorityThreshold = [c \in CtxIds |-> U32(0)]
    /\ pending = {33}
    /\ claimed = {}
    /\ last = NoCall
    /\ NoHistory
    /\ NoHarts

NextRange ==
    \/ \E source \in RangeSrcIds :
          \/ set_priority(source, U32(MaxPrio))
          \/ call_get_priority(source)
          \/ probe_priority_bits(source)
          \/ call_is_pending(source)
    \/ \E source \in RangeSrcIds, context \in RangeCtxIds :
          \/ enable(source, context)
          \/ disable(source, context)
          \/ call_is_enabled(source, context)
          \/ complete(context, source)
    \/ \E context \in RangeCtxIds :
          \/ init_by_context(context)
          \/ set_threshold(context, U32(1))
          \/ call_get_threshold(context)
          \/ probe_threshold_bits(context)
          \/ claim(context)

SpecRange == InitRange /\ [][NextRange]_vars

(* ---------------------------------------------------------------------- *)
(* Properties of out-of-range identifiers (SpecRange)                      *)
(* ---------------------------------------------------------------------- *)
\* The step is a call with a context index outside [0, CONTEXT_NUM) or a
\* source id of SOURCE_NUM or more.
OutOfRangeCall == last'.context >= CONTEXT_NUM \/ last'.source >= SOURCE_NUM

\* The step is a call that aborted before it read or wrote a register.
AbortedCall == last'.ret = RetPanic /\ UNCHANGED <<regVars, hwVars>>

\* C13: every call of a public operation with a context index outside
\* [0, CONTEXT_NUM) or a source id of SOURCE_NUM or more aborts before it
\* reads or writes a register; this includes complete(c, s).
C13_OutOfRangeAborts == [][OutOfRangeCall => AbortedCall]_vars

(* ---------------------------------------------------------------------- *)
(* SpecComplete: the sources of ClaimSrc assert; the contexts claim and    *)
(* complete any source of ClaimSrc, held or not, in any order              *)
(* ---------------------------------------------------------------------- *)
NextComplete ==
    \/ \E source \in ClaimSrc : SourceAsserts(source)
    \/ \E context \in CtxIds : claim(context)
    \/ \E context \in CtxIds : \E source \in ClaimSrc : complete(context, source)

SpecComplete == InitClaim /\ [][NextComplete]_vars

(* ---------------------------------------------------------------------- *)
(* Properties of complete (SpecComplete)                                   *)
(* ---------------------------------------------------------------------- *)
\* C14: complete(c, s) called when s is not an outstanding claim token of c
\* aborts: it does not write the claim/complete register and changes the
\* claimed and pending state of no source.
C14_MismatchedCompleteAborts ==
    [][\A c \in CtxIds, s \in SrcIds :
        (last'.op = "complete" /\ last'.context = c /\ last'.source = s
            /\ s \notin token[c])
        => (last'.ret = RetPanic /\ UNCHANGED hwVars)]_vars

(* ---------------------------------------------------------------------- *)
(* Context resolution: SimpleContext::index                                *)
(* ---------------------------------------------------------------------- *)
\* enum Mode { Machine = 0, Supervisor = 1 }
Mode == [Machine |-> 0, Supervisor |-> 1]
ModeOrdinals == {Mode.Machine, Mode.Supervisor}

\* The number of values of a u8, the element and accumulator type of
\* `privileges.iter().take(hart_id).sum::<u8>()`.
U8_MODULUS == 2 ^ 8

\* The largest number of harts in a privileges list.
MaxPrivLen == 3
\* The per-hart counts the lists are made of: small counts and u8::MAX.
PrivCounts == {0, 1, 2, U8_MODULUS - 1}
\* The privileges lists: every list of 1 .. MaxPrivLen counts.
PrivLists == UNION {[1 .. n -> PrivCounts] : n \in 1 .. MaxPrivLen}

\* What index returned: a usize.
RetUsize(n) == [tag |-> "usize", val |-> n]
\* index panicked: the array index, the assertion or the overflow check.
RetAbort(why) == [tag |-> "panic", val |-> why]

\* privileges.iter().take(hart_id): the first hart_id counts, or all of them.
take(privileges, hart_id) ==
    SubSeq(privileges, 1, IF hart_id < Len(privileges) THEN hart_id ELSE Len(privileges))

\* sum::<u8>(): the additions of u8 values left to right from 0; `val` is the
\* wrapped sum and `overflow` whether an addition overflowed.
RECURSIVE sum_u8(_)
sum_u8(counts) ==
    IF counts = <<>> THEN [val |-> 0, overflow |-> FALSE]
    ELSE LET acc == sum_u8(SubSeq(counts, 1, Len(counts) - 1))
             next == acc.val + counts[Len(counts)]
         IN  [val |-> next % U8_MODULUS,
              overflow |-> acc.overflow \/ next >= U8_MODULUS]

\* SimpleContext::index. hart_id counts from 0, sequences from 1. An
\* overflowing u8 addition panics in a build with overflow checks and wraps
\* in a build without them.
SimpleContext_index(privileges, hart_id, mode, overflow_checks) ==
    IF hart_id >= Len(privileges) THEN RetAbort("index out of bounds")
    ELSE IF ~(mode <= privileges[hart_id + 1]) THEN RetAbort("assertion failed")
    ELSE LET s == sum_u8(take(privileges, hart_id))
         IN  IF s.overflow /\ overflow_checks
             THEN RetAbort("attempt to add with overflow")
             ELSE RetUsize(s.val + mode)

\* A call of SimpleContext { privileges, hart_id, mode }.index()
call_index(privileges, hart_id, mode, overflow_checks) ==
    /\ last' = Call("index", 0, 0,
                    [privileges |-> privileges, hart_id |-> hart_id, mode |-> mode,
                     overflow_checks |-> overflow_checks],
                    SimpleContext_index(privileges, hart_id, mode, overflow_checks))
    /\ UNCHANGED <<regVars, hwVars, histVars, hartVars>>

(* ---------------------------------------------------------------------- *)
(* SpecContext: calls of SimpleContext::index on every privileges list of  *)
(* PrivLists, every hart_id up to its length and both modes, in builds     *)
(* with and without overflow checks, one call per run                      *)
(* ---------------------------------------------------------------------- *)
InitContext ==
    /\ PrioBits = MaxPrioBits
    /\ InterruptPriority = [s \in SrcIds |-> U32(0)]
    /\ InterruptEnableCtxX = [c \in CtxIds |-> [g \in GroupIds |-> {}]]
    /\ PriorityThreshold = [c \in CtxIds |-> U32(0)]
    /\ pending = {}
    /\ claimed = {}
    /\ last = NoCall
    /\ NoHistory
    /\ NoHarts

\* Each run is one call: index is a pure function of its receiver.
NextContext ==
    /\ last = NoCall
    /\ \E privileges \in PrivLists, hart_id \in 0 .. MaxPrivLen, mode \in ModeOrdinals,
          overflow_checks \in BOOLEAN :
           call_index(privileges, hart_id, mode, overflow_checks)

SpecContext == InitContext /\ [][NextContext]_vars

(* ---------------------------------------------------------------------- *)
(* Properties of SimpleContext::index (SpecContext)                        *)
(* ---------------------------------------------------------------------- *)
\* The integer sum of the counts of a list.
RECURSIVE TrueSum(_)
TrueSum(counts) ==
    IF counts = <<>> THEN 0
    ELSE TrueSum(SubSeq(counts, 1, Len(counts) - 1)) + counts[Len(counts)]

\* C15: for every privileges list, every hart_id within the list and every
\* mode, index either aborts because the mode's ordinal exceeds the count of
\* the hart, or returns the integer sum of the counts of the preceding harts
\* plus the mode's ordinal, also when that sum is 256 or more.
C15_IndexIsTrueSum ==
    (last.op = "index" /\ last.value.hart_id < Len(last.value.privileges))
    => \/ /\ last.ret.tag = "panic"
          /\ last.value.mode > last.value.privileges[last.value.hart_id + 1]
       \/ /\ last.ret.tag = "usize"
          /\ last.ret.val = TrueSum(take(last.value.privileges, last.value.hart_id))
                              + last.value.mode

\* C19: for a fixed privileges list, two distinct (hart_id, mode) pairs for
\* which index does not abort yield different context indices.
C19_IndexInjective ==
    (last.op = "index" /\ last.ret.tag = "usize")
    => \A hart_id \in 0 .. MaxPrivLen, mode \in ModeOrdinals :
          LET other == SimpleContext_index(last.value.privileges, hart_id, mode,
                                           last.value.overflow_checks)
          IN  (<<hart_id, mode>> # <<last.value.hart_id, last.value.mode>>
                  /\ other.tag = "usize")
              => other.val # last.ret.val

(* ---------------------------------------------------------------------- *)
(* Address layout: the byte offsets that register_structs! gives the       *)
(* fields of PLICRegs, InterruptEnableCtxX and ContextLocal                *)
(* ---------------------------------------------------------------------- *)
\* (0x000000 => InterruptPriority: [ReadWrite<u32>; SOURCE_NUM])
PLICRegs_InterruptPriority == 0
\* (0x001000 => InterruptPending: [ReadOnly<u32>; 0x20])
PLICRegs_InterruptPending == 4096
\* (0x002000 => InterruptEnableCtxX: [InterruptEnableCtxX; CONTEXT_NUM])
PLICRegs_InterruptEnableCtxX == 8192
\* (0x200000 => Contexts: [ContextLocal; CONTEXT_NUM])
PLICRegs_Contexts == 2097152
\* (0x4000000 => @END)
PLICRegs_END == 67108864
\* (0x00 => InterruptSources: [ReadWrite<u32>; SOURCE_NUM / U32_BITS])
InterruptEnableCtxX_InterruptSources == 0
\* (0x80 => @END)
InterruptEnableCtxX_END == 128
\* (0x0000 => PriorityThreshold: ReadWrite<u32>)
ContextLocal_PriorityThreshold == 0
\* (0x0004 => InterruptClaimComplete: ReadWrite<u32>)
ContextLocal_InterruptClaimComplete == 4
\* (0x1000 => @END): a mutation that ends the struct after its two registers
ContextLocal_END_unpadded == ContextLocal_InterruptClaimComplete + U32_BITS \div 8
\* (0x1000 => @END)
ContextLocal_END == 4096
\* The size of a ReadWrite<u32> or ReadOnly<u32> in bytes.
U32_BYTES == U32_BITS \div 8

\* The byte offset of InterruptPriority[source]
InterruptPriority_offset(source) == PLICRegs_InterruptPriority + source * U32_BYTES
\* The byte offset of InterruptPending[group]
InterruptPending_offset(group) == PLICRegs_InterruptPending + group * U32_BYTES
\* The byte offset of InterruptEnableCtxX[context].InterruptSources[group]
InterruptSources_offset(context, group) ==
    PLICRegs_InterruptEnableCtxX + context * InterruptEnableCtxX_END
        + InterruptEnableCtxX_InterruptSources + group * U32_BYTES
\* The byte offset of Contexts[context].PriorityThreshold
PriorityThreshold_offset(context) ==
    PLICRegs_Contexts + context * ContextLocal_END + ContextLocal_PriorityThreshold
\* The byte offset of Contexts[context].InterruptClaimComplete
InterruptClaimComplete_offset(context) ==
    PLICRegs_Contexts + context * ContextLocal_END + ContextLocal_InterruptClaimComplete

\* The source ids of the layout runs: every index of InterruptPriority.
LayoutSrcIds == 0 .. (SOURCE_NUM - 1)
\* The context indices of the layout runs: the first and the last ones.
LayoutCtxIds == {0, 1, 2, CONTEXT_NUM - 2, CONTEXT_NUM - 1}

\* A register: its field and its array indices (0 where it has none).
Reg(field, context, index) == [field |-> field, context |-> context, index |-> index]

\* The registers of the layout runs.
LayoutRegs ==
    {Reg("InterruptPriority", 0, s) : s \in LayoutSrcIds}
    \cup {Reg("InterruptPending", 0, g) : g \in 0 .. (SOURCE_NUM \div U32_BITS - 1)}
    \cup {Reg("InterruptSources", c, g) :
            c \in LayoutCtxIds, g \in 0 .. (SOURCE_NUM \div U32_BITS - 1)}
    \cup {Reg("PriorityThreshold", c, 0) : c \in LayoutCtxIds}
    \cup {Reg("InterruptClaimComplete", c, 0) : c \in LayoutCtxIds}

\* The byte offset of a register.
RegOffset(reg) ==
    CASE reg.field = "InterruptPriority" -> InterruptPriority_offset(reg.index)
      [] reg.field = "InterruptPending" -> InterruptPending_offset(reg.index)
      [] reg.field = "InterruptSources" -> InterruptSources_offset(reg.context, reg.index)
      [] reg.field = "PriorityThreshold" -> PriorityThreshold_offset(reg.context)
      [] reg.field = "InterruptClaimComplete" -> InterruptClaimComplete_offset(reg.context)

\* The register that holds the priority, the pending bit or the enable bit
\* of `source`, or the threshold or the claim/complete register of `context`,
\* as the methods of Plic index it.
RegOf(field, source, context) ==
    CASE field = "InterruptPriority" -> Reg(field, 0, source)
      [] field = "InterruptPending" -> Reg(field, 0, parse_group_and_index(source)[1])
      [] field = "InterruptSources" -> Reg(field, context, parse_group_and_index(source)[1])
      [] field \in {"PriorityThreshold", "InterruptClaimComplete"} -> Reg(field, context, 0)

\* An access of the register of `field` for (source, context): `last` keeps
\* the bit mask the method applies to the word (bitmaps only) and the byte
\* offset of the word.
access(field, source, context) ==
    /\ last' = Call(field, source, context,
                    IF field \in {"InterruptPending", "InterruptSources"}
                    THEN Shl1(parse_group_and_index(source)[2]) ELSE {},
                    RetUsize(RegOffset(RegOf(field, source, context))))
    /\ UNCHANGED <<regVars, hwVars, histVars, hartVars>>

(* ---------------------------------------------------------------------- *)
(* SpecLayout: one register access per run, of any register of LayoutRegs  *)
(* ---------------------------------------------------------------------- *)
NextLayout ==
    /\ last = NoCall
    /\ \/ \E source \in LayoutSrcIds : access("InterruptPriority", source, 0)
       \/ \E source \in LayoutSrcIds : access("InterruptPending", source, 0)
       \/ \E source \in LayoutSrcIds, context \in LayoutCtxIds :
             access("InterruptSources", source, context)
       \/ \E context \in LayoutCtxIds : access("PriorityThreshold", 0, context)
       \/ \E context \in LayoutCtxIds : access("InterruptClaimComplete", 0, context)

SpecLayout == InitContext /\ [][NextLayout]_vars

(* ---------------------------------------------------------------------- *)
(* Properties of the address layout (SpecLayout)                           *)
(* ---------------------------------------------------------------------- *)
LayoutFields ==
    {"InterruptPriority", "InterruptPending", "InterruptSources",
     "PriorityThreshold", "InterruptClaimComplete"}

\* C16: the priority word of s is at byte offset 4*s, the pending bit of s
\* is bit s%32 of the word at 0x1000 + 4*(s/32), the enable bit of (s, c) is
\* bit s%32 of the word at 0x2000 + 128*c + 4*(s/32), the threshold of c is
\* at 0x200000 + 4096*c and its claim/complete register 4 bytes further;
\* every register ends at or below 0x4000000 and no two distinct registers
\* share a byte.
C16_AddressModel ==
    (last.op \in LayoutFields)
    => LET s == last.source
           c == last.context
           offset == last.ret.val
       IN  /\ last.op = "InterruptPriority" => offset = 4 * s
           /\ last.op = "InterruptPending"
                => /\ offset = 4096 + 4 * (s \div 32)
                   /\ last.value = {s % 32}
           /\ last.op = "InterruptSources"
                => /\ offset = 8192 + 128 * c + 4 * (s \div 32)
                   /\ last.value = {s % 32}
           /\ last.op = "PriorityThreshold" => offset = 2097152 + 4096 * c
           /\ last.op = "InterruptClaimComplete" => offset = 2097152 + 4096 * c + 4
           /\ offset >= 0 /\ offset + 4 <= 67108864
           /\ \A reg \in LayoutRegs :
                reg # RegOf(last.op, s, c)
                => (RegOffset(reg) + 4 <= offset \/ offset + 4 <= RegOffset(reg))

\* C16 witness: the enable word of source 1023 for the last context has been
\* accessed: the last word of the enable region, bit 31.
C16_Witness ==
    /\ last.op = "InterruptSources"
    /\ last.source = SOURCE_NUM - 1 /\ last.context = CONTEXT_NUM - 1
    /\ last.value = {31}
    /\ last.ret.val = 2039804

(* ---------------------------------------------------------------------- *)
(* SpecPending: the sources of ClaimSrc assert, and one caller makes every *)
(* call of Plic on them and on one context, in any order                   *)
(* ---------------------------------------------------------------------- *)
\* The context of the caller.
PendCtxIds == {0}

InitPending ==
    /\ PrioBits = MaxPrioBits
    /\ InterruptPriority = [s \in SrcIds |-> U32(1)]
    /\ InterruptEnableCtxX = [c \in CtxIds |-> [g \in GroupIds |-> UsedBits(g)]]
    /\ PriorityThreshold = [c \in CtxIds |-> U32(0)]
    /\ pending = {}
    /\ claimed = {}
    /\ last = NoCall
    /\ NoHistory
    /\ NoHarts

NextPending ==
    \/ \E source \in ClaimSrc :
          \/ SourceAsserts(source)
          \/ set_priority(source, U32(0))
          \/ call_get_priority(source)
          \/ probe_priority_bits(source)
          \/ call_is_pending(source)
    \/ \E source \in ClaimSrc, context \in PendCtxIds :
          \/ enable(source, context)
          \/ disable(source, context)
          \/ call_is_enabled(source, context)
          \/ complete(context, source)
    \/ \E context \in PendCtxIds :
          \/ init_by_context(context)
          \/ set_threshold(context, U32(1))
          \/ call_get_threshold(context)
          \/ probe_threshold_bits(context)
          \/ claim(context)

SpecPending == InitPending /\ [][NextPending]_vars

(* ---------------------------------------------------------------------- *)
(* Properties of the pending bits (SpecPending)                            *)
(* ---------------------------------------------------------------------- *)
\* The calls that are neither claim nor a source asserting.
NonClaimOps ==
    {"set_priority", "get_priority", "probe_priority_bits", "is_pending",
     "enable", "disable", "is_enabled", "get_threshold", "set_threshold",
     "probe_threshold_bits", "init_by_context", "complete"}

\* C17: no call of set_priority, get_priority, probe_priority_bits,
\* is_pending, enable, disable, is_enabled, get_threshold, set_threshold,
\* probe_threshold_bits, init_by_context or complete changes what
\* is_pending(s) returns for any source s; is_pending(s) goes from true to
\* false only in a claim that returns s, and from false to true only when
\* the source s asserts.
C17_PendingOnlyByClaim ==
    [][/\ last'.op \in NonClaimOps
            => \A s \in SrcIds : is_pending(s)' = is_pending(s)
       /\ \A s \in SrcIds :
            (is_pending(s) /\ ~is_pending(s)')
            => \E c \in CtxIds : ClaimReturns(c, s)
       /\ \A s \in SrcIds :
            (~is_pending(s) /\ is_pending(s)')
            => (last'.op = "assert" /\ last'.source = s)]_vars

\* C17 witness: source 33 is still pending right after a probe of its
\* priority, while source 1, which asserted too, has been claimed.
C17_Witness ==
    /\ last.op = "probe_priority_bits" /\ last.source = 33
    /\ is_pending(33) /\ ~is_pending(1)
    /\ 1 \in token[0]

(* ---------------------------------------------------------------------- *)
(* Properties of parse_group_and_index (SpecLayout)                        *)
(* ---------------------------------------------------------------------- *)
\* C18: for every source id s in [0, 1024), parse_group_and_index(s) is
\* (s / 32, s % 32) with both components in [0, 32) and group*32 + bit = s,
\* so no other source id has the same pair; 0 -> (0, 0), 33 -> (1, 1) and
\* 1023 -> (31, 31); and an access of the pending bit of s and of the enable
\* bit of s for any context uses word `group` of the bitmap and bit `bit`.
C18_GroupAndIndex ==
    (last.op \in {"InterruptPending", "InterruptSources"})
    => LET s == last.source
           group == parse_group_and_index(s)[1]
           bit == parse_group_and_index(s)[2]
       IN  /\ group = s \div 32 /\ bit = s % 32
           /\ group \in 0 .. 31 /\ bit \in 0 .. 31
           /\ group * 32 + bit = s
           /\ \A s2 \in LayoutSrcIds \ {s} :
                parse_group_and_index(s2) # parse_group_and_index(s)
           /\ s = 0 => (group = 0 /\ bit = 0)
           /\ s = 33 => (group = 1 /\ bit = 1)
           /\ s = 1023 => (group = 31 /\ bit = 31)
           /\ last.value = {bit}
           /\ last.op = "InterruptPending"
                => last.ret.val = InterruptPending_offset(s \div 32)
           /\ last.op = "InterruptSources"
                => last.ret.val = InterruptSources_offset(last.context, s \div 32)

\* C18 witness: the pending bit of source 33 has been accessed: bit 1 of
\* the second word of the pending bitmap.
C18_Witness ==
    /\ last.op = "InterruptPending" /\ last.source = 33
    /\ last.value = {1}
    /\ last.ret.val = 4100

(* ---------------------------------------------------------------------- *)
(* SpecPoll: the owner of a context polls: it claims, completes what the   *)
(* claim returned and claims again, for ever; every source is pending at   *)
(* the start, none asserts again, and no register is written               *)
(* ---------------------------------------------------------------------- *)
\* The owner's next claim: it holds no claim token.
poll_claim(context) ==
    /\ token[context] = {}
    /\ claim(context)

\* The owner completes the source its last claim returned.
poll_complete(context) ==
    /\ \E source \in token[context] : complete(context, source)

\* Any priorities, any enable bits of the polled context, its threshold 0 or 1.
InitPoll ==
    /\ PrioBits = MaxPrioBits
    /\ InterruptPriority \in [SrcIds -> {U32(n) : n \in 0 .. MaxPrio}]
    /\ \E on \in SUBSET SrcIds :
          InterruptEnableCtxX =
            [c \in CtxIds |->
                [g \in GroupIds |-> IF c \in PendCtxIds THEN EnableWordOf(on, g) ELSE {}]]
    /\ \E th \in {U32(0), U32(1)} :
          PriorityThreshold = [c \in CtxIds |-> IF c \in PendCtxIds THEN th ELSE U32(0)]
    /\ pending = SrcIds
    /\ claimed = {}
    /\ last = NoCall
    /\ NoHistory
    /\ NoHarts

NextPoll ==
    \E context \in PendCtxIds :
        \/ poll_claim(context)
        \/ poll_complete(context)

\* The owner keeps polling: a step of the loop that is possible is taken.
SpecPoll == InitPoll /\ [][NextPoll]_vars /\ WF_vars(NextPoll)

(* ---------------------------------------------------------------------- *)
(* Properties of the polling loop (SpecPoll)                               *)
(* ---------------------------------------------------------------------- *)
\* C20: while the owner of context c polls and completes every source
\* before its next claim, with the registers fixed and no source asserting
\* again: every source that is pending, enabled for c and above the
\* threshold of c is eventually returned by claim(c); a claim returns a
\* source only once; c never holds more than one claim token; and in the
\* end claim(c) returns None for ever.
C20_PollingDrains ==
    /\ \A c \in PendCtxIds : \A s \in SrcIds :
          Eligible(s, c) ~> (last = Call("claim", 0, c, {}, RetSome(U32(s))))
    /\ [][\A c \in PendCtxIds : \A s \in SrcIds :
             ClaimReturns(c, s) => (s \in asserted /\ s \notin asserted')]_vars
    /\ [][asserted' \subseteq asserted]_vars
    /\ [](\A c \in PendCtxIds : Cardinality(token[c]) <= 1)
    /\ \A c \in PendCtxIds : <>[](last = Call("claim", 0, c, {}, RetNone))

\* C20 witness: the poll of context 0 has drained: sources 1 and 33 were
\* claimed and completed, source 2 is pending and not eligible, and the
\* last claim returned None.
C20_Witness ==
    /\ last = Call("claim", 0, 0, {}, RetNone)
    /\ pending = {2}
    /\ claimed = {} /\ token[0] = {}
    /\ asserted = {2}
    /\ is_enabled(1, 0) /\ is_enabled(33, 0)
    /\ WordGt(get_priority(1), get_threshold(0))
    /\ WordGt(get_priority(33), get_threshold(0))

============================================================================
